---- MODULE Spec2Model ----
(***************************************************************************)
(* Model of the Downloader cog (redbot/cogs/downloader/downloader.py) and  *)
(* of the Warnings cog (grief/cogs/warnings/warnings.py).                  *)
(*                                                                         *)
(* The installed-module registry, the update reconciliation                *)
(* (_available_updates), the installer (_update_cogs_and_libs), the        *)
(* initialization gate (create_init_task / cog_before_invoke), the warn /  *)
(* unwarn commands and the deletion of a user's data (red_delete_data_     *)
(* for_user) are modelled as state machines over one set of                *)
(* variables; each specification below exercises one of them and leaves    *)
(* the variables of the others alone.                                     *)
(***************************************************************************)
EXTENDS Integers, Sequences, FiniteSets, TLC

VARIABLES
    schema_version,       \* config: schema_version
    legacy_installed,     \* config: raw key "installed" of schema 0, set or not
    installed_cogs,       \* config: installed_cogs, repo name -> module name -> json
    installed_libraries,  \* config: installed_libraries, same shape
    repo_commit,          \* Repo.commit of every repo the RepoManager knows
    ret,                  \* what the last operation was given and what it returned
    upd,                  \* position and locals of a running _update_cogs_and_libs
    init_task,            \* Downloader._init_task, _ready and _ready_raised
    invocations,          \* position of every invocation of a Downloader command
    guild_settings,       \* config: the guild's Warnings settings
    member_warnings,      \* config: the 'warnings' of every member
    lock,                 \* holder of the store's lock on each member's warnings
    commands,             \* position and locals of every warn / unwarn invocation
    member_data,          \* config: the member data of every guild, all_members()
    deletion              \* position and locals of red_delete_data_for_user

regVars == <<schema_version, legacy_installed, installed_cogs, installed_libraries>>

gateVars == <<init_task, invocations>>

warnVars == <<guild_settings, member_warnings, lock, commands>>

delVars == <<member_data, deletion>>

-----------------------------------------------------------------------------
(* Finite maps (Python dicts).                                             *)

EmptyMap == [k \in {} |-> k]

Put(f, k, v) == [x \in (DOMAIN f) \cup {k} |-> IF x = k THEN v ELSE f[x]]

Pop(f, k) == [x \in (DOMAIN f) \ {k} |-> f[x]]

-----------------------------------------------------------------------------
(* The repositories: the external collaborator Repo / RepoManager.         *)

\* Repos the RepoManager holds; any other repo name in the registry is a
\* repo that was removed (InstalledModule.repo is None).
RepoNames == {"r1", "r2"}

RemovedRepo == "gone"

\* The commits of every repo's branch, oldest first; "bad" is a revision
\* the repo does not know and "" is "no commit data saved".
History == <<"c1", "c2", "c3">>

UnknownCommit == "bad"

CommitIdx(c) == CHOOSE i \in 1..Len(History) : History[i] = c

Known(c) == \E i \in 1..Len(History) : History[i] = c

\* Repo.is_ancestor(maybe_ancestor, descendant), both revisions known.
IsAncestor(old, new) == CommitIdx(old) <= CommitIdx(new)

AvailableCogs(r) == IF r = "r1" THEN {"a", "b"} ELSE {"c"}

AvailableLibraries(r) == IF r = "r1" THEN {"l"} ELSE {}

\* "x" was deleted from its repo: it is installed but no longer available.
ModuleNames == {"a", "b", "c", "l", "x"}

TypeOf(n) == IF n = "l" THEN "SHARED_LIBRARY" ELSE "COG"

\* The modules each commit touched.
TouchedAt(r, c) ==
    IF r = "r1"
    THEN (IF c = "c2" THEN {"a", "b"} ELSE IF c = "c3" THEN {"b", "l"} ELSE {})
    ELSE (IF c = "c3" THEN {"c"} ELSE {})

\* Installable.disabled as read from info.json at a commit.
Disabled(r, n, c) == r = "r1" /\ n = "b" /\ c = "c3"

\* An Installable of repo r as it is at commit c.
InstallableAt(r, n, c) ==
    [repo_name |-> r, name |-> n, type |-> TypeOf(n), commit |-> c,
     disabled |-> Disabled(r, n, c)]

NoModule ==
    [repo_name |-> "", name |-> "", type |-> "UNKNOWN", commit |-> "",
     disabled |-> TRUE]

\* Repo.get_last_module_occurrence(name): None for a module the repo lost.
GetLastModuleOccurrence(r, n, head) ==
    IF n \in AvailableCogs(r) \cup AvailableLibraries(r)
    THEN InstallableAt(r, n, head[r])
    ELSE NoModule

\* Repo.get_modified_modules(old_rev, new_rev), old_rev an ancestor of new_rev.
GetModifiedModules(r, old, new) ==
    { InstallableAt(r, n, new) :
        n \in { m \in AvailableCogs(r) \cup AvailableLibraries(r) :
                  \E i \in (CommitIdx(old) + 1)..CommitIdx(new) :
                      m \in TouchedAt(r, History[i]) } }

\* Installable.__eq__ / __hash__: two modules are the same module when they
\* live at the same place, the repo's folder and the module's name.
Location(m) == <<m.repo_name, m.name>>

-----------------------------------------------------------------------------
(* InstalledModule and its json.                                           *)

FromJson(data, type) ==
    [repo_name      |-> IF data.repo_name \in RepoNames THEN data.repo_name
                        ELSE "MISSING_REPO",
     json_repo_name |-> data.repo_name,
     name           |-> data.module_name,
     type           |-> type,
     commit         |-> data.commit,
     pinned         |-> data.pinned,
     has_repo       |-> data.repo_name \in RepoNames]

ToJson(m) ==
    [repo_name |-> m.repo_name, module_name |-> m.name,
     commit |-> m.commit, pinned |-> m.pinned]

FromInstallable(i) ==
    [repo_name |-> i.repo_name, json_repo_name |-> i.repo_name, name |-> i.name,
     type |-> i.type, commit |-> i.commit, pinned |-> FALSE, has_repo |-> TRUE]

ModulesOf(registry, type) ==
    UNION { { FromJson(registry[r][n], type) : n \in DOMAIN registry[r] } :
            r \in DOMAIN registry }

InstalledCogs == ModulesOf(installed_cogs, "COG")

InstalledLibraries == ModulesOf(installed_libraries, "SHARED_LIBRARY")

InstalledModules == InstalledCogs \cup InstalledLibraries

-----------------------------------------------------------------------------
(* Schema migration.                                                       *)

MigratedEntryUnpinned(cog_json) ==
    [repo_name |-> cog_json.repo_name, module_name |-> cog_json.cog_name,
     commit |-> ""]

MigratedEntry(cog_json) ==
    [repo_name |-> cog_json.repo_name, module_name |-> cog_json.cog_name,
     commit |-> "", pinned |-> FALSE]

RECURSIVE MigrateAll(_, _)
MigrateAll(new_cog_conf, old_conf) ==
    IF old_conf = << >> THEN new_cog_conf
    ELSE LET cog_json == Head(old_conf)
             repo_name == cog_json.repo_name
             module_name == cog_json.cog_name
             with_repo == IF repo_name \in DOMAIN new_cog_conf THEN new_cog_conf
                          ELSE Put(new_cog_conf, repo_name, EmptyMap)
         IN  MigrateAll(
                 Put(with_repo, repo_name,
                     Put(with_repo[repo_name], module_name, MigratedEntry(cog_json))),
                 Tail(old_conf))

\* The raw key "installed" when nothing is stored at it, and what
\* clear_raw("installed") leaves.
NoLegacy == [set |-> FALSE, value |-> << >>]

\* get_raw("installed", default=[])
GetRawInstalled == IF legacy_installed.set THEN legacy_installed.value ELSE << >>

\* _schema_0_to_1: the new installed_cogs and the new raw "installed" key.
Schema0To1NotClearing ==
    IF GetRawInstalled = << >>
    THEN [cogs |-> installed_cogs, legacy |-> legacy_installed]
    ELSE [cogs |-> MigrateAll(installed_cogs, GetRawInstalled),
          legacy |-> legacy_installed]

Schema0To1 ==
    IF GetRawInstalled = << >>
    THEN [cogs |-> installed_cogs, legacy |-> legacy_installed]
    ELSE [cogs |-> MigrateAll(installed_cogs, GetRawInstalled), legacy |-> NoLegacy]

MaybeUpdateConfigEffect ==
    IF schema_version = 0
    THEN /\ installed_cogs' = Schema0To1.cogs
         /\ legacy_installed' = Schema0To1.legacy
         /\ schema_version' = schema_version + 1
         /\ UNCHANGED installed_libraries
    ELSE UNCHANGED regVars

-----------------------------------------------------------------------------
(* _save_to_installed and _remove_from_installed.                          *)

\* The json a module is saved as and the place it is saved at.
SavedJson(module) == ToJson(module)

SaveKey(module) == <<module.repo_name, module.name>>

SaveInto(installed, module) ==
    LET key == SaveKey(module)
        repo_json == IF key[1] \in DOMAIN installed THEN installed[key[1]] ELSE EmptyMap
    IN  Put(installed, key[1], Put(repo_json, key[2], SavedJson(module)))

SaveOneIntoCogs(data, module) ==
    [data EXCEPT !.installed_cogs = SaveInto(@, module)]

SaveOne(data, module) ==
    IF module.type = "COG"
    THEN [data EXCEPT !.installed_cogs = SaveInto(@, module)]
    ELSE IF module.type = "SHARED_LIBRARY"
    THEN [data EXCEPT !.installed_libraries = SaveInto(@, module)]
    ELSE data

RECURSIVE SaveToInstalled(_, _)
SaveToInstalled(data, modules) ==
    IF modules = {} THEN data
    ELSE LET module == CHOOSE m \in modules : TRUE
         IN  SaveToInstalled(SaveOne(data, module), modules \ {module})

RemoveFrom(installed, module) ==
    IF /\ module.json_repo_name \in DOMAIN installed
       /\ module.name \in DOMAIN installed[module.json_repo_name]
    THEN [installed EXCEPT ![module.json_repo_name] = Pop(@, module.name)]
    ELSE installed

RemoveOneFromBoth(data, module) ==
    [data EXCEPT !.installed_cogs = RemoveFrom(@, module),
                 !.installed_libraries = RemoveFrom(@, module)]

RemoveOne(data, module) ==
    IF module.type = "COG"
    THEN [data EXCEPT !.installed_cogs = RemoveFrom(@, module)]
    ELSE IF module.type = "SHARED_LIBRARY"
    THEN [data EXCEPT !.installed_libraries = RemoveFrom(@, module)]
    ELSE data

RECURSIVE RemoveFromInstalled(_, _)
RemoveFromInstalled(data, modules) ==
    IF modules = {} THEN data
    ELSE LET module == CHOOSE m \in modules : TRUE
         IN  RemoveFromInstalled(RemoveOne(data, module), modules \ {module})

GlobalData == [installed_cogs |-> installed_cogs,
               installed_libraries |-> installed_libraries]

-----------------------------------------------------------------------------
(* _available_updates.                                                     *)

\* The back-compat and invalid-commit paths: the module's last occurrence,
\* when there is one and it is not disabled.
LastOccurrences(modules, head) ==
    { occ \in { GetLastModuleOccurrence(m.repo_name, m.name, head) : m \in modules } :
        occ # NoModule /\ ~occ.disabled }

\* hashes: the modules to diff, keyed by (repo, old commit).
Hashes(modules, head) ==
    LET to_check == { m \in modules :
                        /\ head[m.repo_name] # m.commit
                        /\ Known(m.commit)
                        /\ IsAncestor(m.commit, head[m.repo_name]) }
    IN  [ k \in { <<m.repo_name, m.commit>> : m \in to_check } |->
            { m \in to_check : <<m.repo_name, m.commit>> = k } ]

\* How many times get_modified_modules is asked for one key of hashes.
DiffRequestsPerModule(modules_to_check) == Cardinality(modules_to_check)

DiffRequests(modules_to_check) == 1

\* The modules of one key that the diff names, as the diff names them.
ModifiedAmongAll(modules_to_check, modified, head) ==
    { InstallableAt(m.repo_name, m.name, head[m.repo_name]) : m \in modules_to_check }

ModifiedAmong(modules_to_check, modified, head) ==
    { mm \in modified : \E m \in modules_to_check : Location(m) = Location(mm) }

\* Whether a modified cog is offered as an update.
CogOfferedAlways(modified_module) == TRUE

CogOffered(modified_module) == ~modified_module.disabled

AvailableUpdates(cogs, libs, head) ==
    LET repos == { cog.repo_name : cog \in { c \in cogs : c.has_repo } }
        available_libraries ==
            UNION { { InstallableAt(r, n, head[r]) : n \in AvailableLibraries(r) } :
                    r \in repos }
        new_libraries ==
            { lib \in available_libraries :
                ~\E il \in libs : Location(il) = Location(lib) }
        lib_modules ==
            { il \in libs :
                \E lib \in available_libraries : Location(il) = Location(lib) }
        cog_modules == { c \in cogs : c.has_repo /\ c.commit # "" }
        no_commit == { c \in cogs : c.has_repo /\ c.commit = "" }
        modules == lib_modules \cup cog_modules
        invalid == { m \in modules :
                       head[m.repo_name] # m.commit /\ ~Known(m.commit) }
        hashes == Hashes(modules, head)
        keys == DOMAIN hashes
        found(k) == ModifiedAmong(hashes[k],
                                  GetModifiedModules(k[1], k[2], head[k[1]]), head)
        all_found == UNION { found(k) : k \in keys }
        unmodified ==
            UNION { { m \in hashes[k] :
                        ~\E mm \in found(k) : Location(mm) = Location(m) } :
                    k \in keys }
        last == LastOccurrences(invalid, head)
    IN  [cogs_to_update |->
             LastOccurrences(no_commit, head)
             \cup { occ \in last : occ.type = "COG" }
             \cup { mm \in all_found : mm.type = "COG" /\ CogOffered(mm) },
         libraries_to_update |->
             new_libraries
             \cup { occ \in last : occ.type = "SHARED_LIBRARY" }
             \cup { mm \in all_found : mm.type = "SHARED_LIBRARY" },
         diff_requests |-> [ k \in keys |-> DiffRequests(hashes[k]) ],
         update_commits |->
             { [m EXCEPT !.commit = head[m.repo_name]] : m \in unmodified }]

-----------------------------------------------------------------------------
(* The registry operations as actions.                                     *)

\* The raw "installed" list a schema-0 configuration may hold.
LegacyChoices ==
    { NoLegacy,
      [set |-> TRUE, value |-> << >>],
      [set |-> TRUE,
       value |-> << [repo_name |-> "r1", cog_name |-> "a"],
                    [repo_name |-> "r1", cog_name |-> "x"] >>],
      [set |-> TRUE, value |-> << [repo_name |-> RemovedRepo, cog_name |-> "x"] >>] }

\* Modules an install or an update hands to _save_to_installed.
SaveChoices ==
    { FromInstallable(InstallableAt("r1", "a", "c1")),
      FromInstallable(InstallableAt("r1", "a", "c2")),
      FromInstallable(InstallableAt("r1", "b", "c1")),
      FromInstallable(InstallableAt("r1", "l", "c1")),
      FromInstallable(InstallableAt("r2", "c", "c2")),
      FromInstallable(InstallableAt("r2", "c", UnknownCommit)) }

\* A module that is neither a cog nor a shared library.
UnknownModule ==
    [FromInstallable(InstallableAt("r1", "u", "c1")) EXCEPT !.type = "UNKNOWN"]

\* The lists of modules handed to _save_to_installed: one module, or a cog,
\* a library and a module of another type at once.
SaveArgs ==
    { {m} : m \in SaveChoices }
    \cup { { FromInstallable(InstallableAt("r1", "a", "c2")),
             FromInstallable(InstallableAt("r1", "l", "c1")),
             UnknownModule },
           { UnknownModule } }

\* A cog that is not installed and goes by the name of a library.
CogNamedAsLibrary ==
    [FromInstallable(InstallableAt("r1", "l", "c1")) EXCEPT !.type = "COG"]

\* The lists of modules handed to _remove_from_installed: one installed
\* module, every installed module of one repo, or a module that may not be
\* recorded.
RemoveArgs ==
    { {m} : m \in InstalledModules }
    \cup { { m \in InstalledModules : m.json_repo_name = r } :
             r \in (DOMAIN installed_cogs) \cup (DOMAIN installed_libraries) }
    \cup { { CogNamedAsLibrary }, { UnknownModule },
           { FromInstallable(InstallableAt("r2", "c", "c2")) } }

\* The cogs _get_cogs_to_check hands to _available_updates: every installed
\* cog, or the installed cogs of one repo.
CheckChoices ==
    { InstalledCogs }
    \cup { { c \in InstalledCogs : c.json_repo_name = r } : r \in DOMAIN installed_cogs }

MaybeUpdateConfig ==
    /\ MaybeUpdateConfigEffect
    /\ ret' = [op |-> "maybe_update_config",
               before |-> [schema_version |-> schema_version,
                           legacy_installed |-> legacy_installed,
                           installed_cogs |-> installed_cogs,
                           installed_libraries |-> installed_libraries]]
    /\ UNCHANGED <<repo_commit, upd, gateVars, warnVars, delVars>>

SaveModules(modules) ==
    LET data == SaveToInstalled(GlobalData, modules)
    IN  /\ schema_version = 1
        /\ installed_cogs' = data.installed_cogs
        /\ installed_libraries' = data.installed_libraries
        /\ ret' = [op |-> "save_to_installed", modules |-> modules]
        /\ UNCHANGED <<schema_version, legacy_installed, repo_commit>>
        /\ UNCHANGED <<upd, gateVars, warnVars, delVars>>

RemoveModules(modules) ==
    LET data == RemoveFromInstalled(GlobalData, modules)
    IN  /\ schema_version = 1
        /\ installed_cogs' = data.installed_cogs
        /\ installed_libraries' = data.installed_libraries
        /\ ret' = [op |-> "remove_from_installed", modules |-> modules]
        /\ UNCHANGED <<schema_version, legacy_installed, repo_commit>>
        /\ UNCHANGED <<upd, gateVars, warnVars, delVars>>

CheckForUpdates(cogs) ==
    LET r == AvailableUpdates(cogs, InstalledLibraries, repo_commit)
        data == SaveToInstalled(GlobalData, r.update_commits)
    IN  /\ schema_version = 1
        /\ installed_cogs' = data.installed_cogs
        /\ installed_libraries' = data.installed_libraries
        /\ ret' = [op |-> "available_updates",
                   cogs |-> cogs,
                   libs |-> InstalledLibraries,
                   head |-> repo_commit,
                   cogs_to_update |-> r.cogs_to_update,
                   libraries_to_update |-> r.libraries_to_update,
                   diff_requests |-> r.diff_requests]
        /\ UNCHANGED <<schema_version, legacy_installed, repo_commit>>
        /\ UNCHANGED <<upd, gateVars, warnVars, delVars>>

\* RepoManager.update_repos: a pull moves a repo to a later commit.
UpdateRepo(r) ==
    /\ CommitIdx(repo_commit[r]) < Len(History)
    /\ repo_commit' = [repo_commit EXCEPT ![r] = History[CommitIdx(@) + 1]]
    /\ ret' = [op |-> "update_repos"]
    /\ UNCHANGED <<regVars, upd, gateVars, warnVars, delVars>>

InitRegistry ==
    /\ schema_version = 0
    /\ legacy_installed \in LegacyChoices
    /\ installed_cogs = EmptyMap
    /\ installed_libraries = EmptyMap

\* The parts of the state a specification does not exercise.
NoUpdate == upd = [pc |-> "idle"]

NoGate == init_task = [state |-> "none"] /\ invocations = EmptyMap

NoWarnings ==
    /\ guild_settings = EmptyMap
    /\ member_warnings = EmptyMap
    /\ lock = EmptyMap
    /\ commands = EmptyMap

NoDeletion == member_data = EmptyMap /\ deletion = [pc |-> "idle"]

InitAvail ==
    /\ InitRegistry
    /\ repo_commit = [r \in RepoNames |-> IF r = "r1" THEN "c1" ELSE "c2"]
    /\ ret = [op |-> "none"]
    /\ NoUpdate /\ NoGate /\ NoWarnings /\ NoDeletion

NextAvail ==
    \/ MaybeUpdateConfig
    \/ \E modules \in SaveArgs : SaveModules(modules)
    \/ \E modules \in RemoveArgs : RemoveModules(modules)
    \/ \E cogs \in CheckChoices : CheckForUpdates(cogs)
    \/ \E r \in RepoNames : UpdateRepo(r)

vars == <<schema_version, legacy_installed, installed_cogs, installed_libraries,
          repo_commit, ret, upd, init_task, invocations, guild_settings,
          member_warnings, lock, commands, member_data, deletion>>

SpecAvail == InitAvail /\ [][NextAvail]_vars

-----------------------------------------------------------------------------
(* Update reconciliation: what _available_updates asks and returns.        *)

\* The installed modules a call looked at: the cogs it was given and the
\* installed libraries it read.
Examined == ret.cogs \cup ret.libs

Returned == ret.cogs_to_update \cup ret.libraries_to_update

\* The module was modified between its installed commit and the repo's
\* current commit at the time of the call.
InDiff(m) ==
    \E mm \in GetModifiedModules(m.repo_name, m.commit, ret.head[m.repo_name]) :
        Location(mm) = Location(m)

ProperAncestor(m) ==
    /\ m.has_repo
    /\ Known(m.commit)
    /\ m.commit # ret.head[m.repo_name]
    /\ IsAncestor(m.commit, ret.head[m.repo_name])

C4_ReturnedOnlyIfModified ==
    ret.op = "available_updates" =>
        \A m \in Examined :
            ( /\ m.has_repo
              /\ m.commit # ""
              /\ Known(m.commit)
              /\ \E u \in Returned : Location(u) = Location(m) )
            => ( ProperAncestor(m) /\ InDiff(m) )

\* A call that returned one stale module and held back an unmodified one, a
\* module at the current commit and a module whose commit is no ancestor.
C4_Witness ==
    /\ ret.op = "available_updates"
    /\ \E m \in Examined :
          ProperAncestor(m) /\ InDiff(m) /\ \E u \in Returned : Location(u) = Location(m)
    /\ \E m \in Examined :
          ProperAncestor(m) /\ ~InDiff(m) /\ ~\E u \in Returned : Location(u) = Location(m)

\* C5: for every cog passed in whose repo is present, whose recorded commit
\* is a proper ancestor of the repo's current commit and which is in the diff
\* between the two, the cog's new version is among the returned cogs if and
\* only if that new version is not disabled.
C5_StaleCogReturnedIffEnabled ==
    ret.op = "available_updates" =>
        \A c \in ret.cogs :
            ( ProperAncestor(c) /\ InDiff(c) ) =>
                LET new == InstallableAt(c.repo_name, c.name, ret.head[c.repo_name])
                IN  (new \in ret.cogs_to_update) <=> ~new.disabled

\* One call met both a stale cog whose new version is enabled and one whose
\* new version is disabled.
C5_Witness ==
    /\ ret.op = "available_updates"
    /\ \E c \in ret.cogs :
          /\ ProperAncestor(c) /\ InDiff(c)
          /\ InstallableAt(c.repo_name, c.name, ret.head[c.repo_name]) \in ret.cogs_to_update
    /\ \E c \in ret.cogs :
          /\ ProperAncestor(c) /\ InDiff(c)
          /\ Disabled(c.repo_name, c.name, ret.head[c.repo_name])

-----------------------------------------------------------------------------
(* The registry's shape.                                                   *)

EntryFields == {"commit", "pinned", "repo_name", "module_name"}

WellFormed(registry) ==
    \A r \in DOMAIN registry :
        \A m \in DOMAIN registry[r] :
            /\ DOMAIN registry[r][m] = EntryFields
            /\ registry[r][m].repo_name = r
            /\ registry[r][m].module_name = m

\* C6: in every state reached by schema migration, _save_to_installed,
\* _remove_from_installed and _available_updates, each entry stored at
\* installed_cogs[r][m] or installed_libraries[r][m] carries commit, pinned,
\* repo_name and module_name, with repo_name = r and module_name = m.
C6_RegistryEntriesWellFormed ==
    WellFormed(installed_cogs) /\ WellFormed(installed_libraries)

\* A registry holding a migrated cog, a cog whose commit _available_updates
\* moved, and an installed library.
C6_Witness ==
    /\ ret.op = "available_updates"
    /\ \E r \in DOMAIN installed_cogs :
          \E m \in DOMAIN installed_cogs[r] : installed_cogs[r][m].commit = ""
    /\ \E r \in DOMAIN installed_cogs :
          \E m \in DOMAIN installed_cogs[r] : installed_cogs[r][m].commit = "c3"
    /\ \E r \in DOMAIN installed_libraries : DOMAIN installed_libraries[r] # {}

-----------------------------------------------------------------------------
(* Schema migration.                                                       *)

\* The entries the raw key "installed" held.
LegacyEntries(legacy) ==
    IF legacy.set THEN { legacy.value[i] : i \in 1..Len(legacy.value) } ELSE {}

\* What _maybe_update_config did to the schema version, to installed_cogs
\* and to installed_libraries, b being the configuration before the call:
\* at version 0 every legacy entry is stored at its place with commit "" and
\* pinned false and nothing else is touched; at version 1 nothing changes.
MigratedFrom(b) ==
    /\ schema_version = 1
    /\ installed_libraries = b.installed_libraries
    /\ b.schema_version = 1 =>
           /\ installed_cogs = b.installed_cogs
           /\ legacy_installed = b.legacy_installed
    /\ b.schema_version = 0 =>
           /\ \A e \in LegacyEntries(b.legacy_installed) :
                  /\ e.repo_name \in DOMAIN installed_cogs
                  /\ e.cog_name \in DOMAIN installed_cogs[e.repo_name]
                  /\ installed_cogs[e.repo_name][e.cog_name]
                         = [repo_name |-> e.repo_name, module_name |-> e.cog_name,
                            commit |-> "", pinned |-> FALSE]
           /\ \A r \in DOMAIN installed_cogs :
                  \A m \in DOMAIN installed_cogs[r] :
                      \/ \E e \in LegacyEntries(b.legacy_installed) :
                             e.repo_name = r /\ e.cog_name = m
                      \/ /\ r \in DOMAIN b.installed_cogs
                         /\ m \in DOMAIN b.installed_cogs[r]
                         /\ installed_cogs[r][m] = b.installed_cogs[r][m]

\* C14 as stated: running _maybe_update_config at schema_version 0 leaves
\* schema_version at 1, stores every legacy 'installed' entry at
\* installed_cogs[repo_name][cog_name] with commit "" and pinned false, and
\* clears the legacy 'installed' key; running it at schema_version 1 changes
\* nothing, so running it twice equals running it once.
C14_MigrationClearsLegacyKey ==
    ret.op = "maybe_update_config" =>
        /\ MigratedFrom(ret.before)
        /\ ret.before.schema_version = 0 => ~legacy_installed.set

\* C14, amended: as above, but the legacy 'installed' key is cleared only
\* when it held at least one entry; a key that is not set, or is set to an
\* empty list, is left as it was.
C14_MigrationIdempotent ==
    ret.op = "maybe_update_config" =>
        /\ MigratedFrom(ret.before)
        /\ ret.before.schema_version = 0 =>
               IF LegacyEntries(ret.before.legacy_installed) # {}
               THEN ~legacy_installed.set
               ELSE legacy_installed = ret.before.legacy_installed

\* A configuration at version 0 with two legacy entries was migrated.
C14_Witness ==
    /\ ret.op = "maybe_update_config"
    /\ ret.before.schema_version = 0
    /\ Cardinality(LegacyEntries(ret.before.legacy_installed)) = 2
    /\ schema_version = 1
    /\ ~legacy_installed.set
    /\ DOMAIN installed_cogs["r1"] = {"a", "x"}

-----------------------------------------------------------------------------
(* What _save_to_installed writes.                                         *)

OfType(modules, type) == { m \in modules : m.type = type }

\* Every given module is stored in the registry at its repo and name, with
\* its json.
StoredIn(registry, given) ==
    \A m \in given :
        /\ m.repo_name \in DOMAIN registry
        /\ m.name \in DOMAIN registry[m.repo_name]
        /\ registry[m.repo_name][m.name] = ToJson(m)

\* Between the registry old and the registry new, no entry was dropped and
\* no entry other than those of the given modules was added or changed.
OnlyGivenWritten(old, new, given) ==
    LET Given(r, n) == \E m \in given : m.repo_name = r /\ m.name = n
    IN  /\ \A r \in DOMAIN old :
               /\ r \in DOMAIN new
               /\ \A n \in DOMAIN old[r] :
                      /\ n \in DOMAIN new[r]
                      /\ ~Given(r, n) => new[r][n] = old[r][n]
        /\ \A r \in DOMAIN new :
               \A n \in DOMAIN new[r] :
                   Given(r, n) \/ (r \in DOMAIN old /\ n \in DOMAIN old[r])

\* C15: after _save_to_installed each given cog is stored at
\* installed_cogs[repo_name][name] and each given shared library at
\* installed_libraries[repo_name][name] with its current json; modules of
\* any other type are ignored, a cog is never written to installed_libraries
\* nor a library to installed_cogs, and every registry entry of a module not
\* given is unchanged.
C15_SaveWritesOnlyGivenModules ==
    [][ret'.op = "save_to_installed" =>
          /\ StoredIn(installed_cogs', OfType(ret'.modules, "COG"))
          /\ StoredIn(installed_libraries', OfType(ret'.modules, "SHARED_LIBRARY"))
          /\ OnlyGivenWritten(installed_cogs, installed_cogs',
                              OfType(ret'.modules, "COG"))
          /\ OnlyGivenWritten(installed_libraries, installed_libraries',
                              OfType(ret'.modules, "SHARED_LIBRARY"))]_vars

\* A cog, a library and a module of another type were saved at once into a
\* registry that holds a migrated cog nobody gave.
C15_Witness ==
    /\ ret.op = "save_to_installed"
    /\ \A type \in {"COG", "SHARED_LIBRARY", "UNKNOWN"} : OfType(ret.modules, type) # {}
    /\ StoredIn(installed_cogs, OfType(ret.modules, "COG"))
    /\ StoredIn(installed_libraries, OfType(ret.modules, "SHARED_LIBRARY"))
    /\ "r1" \in DOMAIN installed_cogs
    /\ "x" \in DOMAIN installed_cogs["r1"]
    /\ installed_cogs["r1"]["x"].commit = ""

-----------------------------------------------------------------------------
(* What _remove_from_installed removes.                                    *)

\* The installed module is one of the given ones: the same repo, the same
\* name and the same type.
IsGiven(m, given) ==
    \E g \in given :
        /\ g.json_repo_name = m.json_repo_name
        /\ g.name = m.name
        /\ g.type = m.type

\* C16: _remove_from_installed removes each given module from the registry
\* of its own type only: afterwards installed_modules() reports none of the
\* given modules and reports every other module as before, and a call given
\* only modules that are not recorded leaves the registry unchanged and
\* returns.
C16_RemoveTakesOnlyGivenModules ==
    [][ret'.op = "remove_from_installed" =>
          /\ \A m \in InstalledModules' : ~IsGiven(m, ret'.modules)
          /\ InstalledModules' = { m \in InstalledModules : ~IsGiven(m, ret'.modules) }
          /\ (\A m \in InstalledModules : ~IsGiven(m, ret'.modules)) =>
                 /\ installed_cogs' = installed_cogs
                 /\ installed_libraries' = installed_libraries]_vars

\* Every module of one repo, a cog and a library among them, was removed
\* and the cog of another repo is still reported.
C16_Witness ==
    /\ ret.op = "remove_from_installed"
    /\ OfType(ret.modules, "COG") # {}
    /\ OfType(ret.modules, "SHARED_LIBRARY") # {}
    /\ \A m \in InstalledModules : ~IsGiven(m, ret.modules)
    /\ \A g \in ret.modules : g.json_repo_name = "r1"
    /\ \E m \in InstalledCogs : m.json_repo_name = "r2"

-----------------------------------------------------------------------------
(* The installer: _update_cogs_and_libs, one step per awaited call.        *)

\* Installable.requirements.
Requirements(module) ==
    IF module.name = "a" THEN {"q1"}
    ELSE IF module.name = "b" THEN {"q1", "q2"}
    ELSE {}

\* cogs_to_update and libs_to_update as handed to _update_cogs_and_libs.
UpdateCogChoices ==
    { InstallableAt("r1", "a", "c2"), InstallableAt("r1", "b", "c3"),
      InstallableAt("r2", "c", "c2") }

UpdateLibChoices == { InstallableAt("r1", "l", "c2") }

IdleUpdate == [pc |-> "idle"]

\* _install_requirements: the set of requirements, without repeats.
AllRequirements(cogs) == UNION { Requirements(cog) : cog \in cogs }

\* _update_cogs_and_libs goes on to _install_cogs once _install_requirements
\* has returned, that is once every requirement was tried.
RequirementsNotAwaited(u) == TRUE

RequirementsReturned(u) == u.reqs_todo = {}

\* repos[repo_name][1][commit]: the modules of a repo wanted at one commit.
ModulesOfRepo(modules, r, commit) == { m \in modules : m.repo_name = r }

ModulesAt(modules, r, commit) ==
    { m \in modules : m.repo_name = r /\ m.commit = commit }

\* The modules the running phase installs.
PhaseModules(u) == IF u.pc = "install_cogs" THEN u.cogs ELSE u.libs

InPhase(u) == u.pc \in {"install_cogs", "reinstall_libraries"}

UpdStart(cogs, libs) ==
    /\ upd.pc = "idle"
    /\ upd' = [pc |-> "install_requirements", cogs |-> cogs, libs |-> libs,
               reqs_todo |-> AllRequirements(cogs), failed_reqs |-> {},
               attempted |-> {}, fs_begun |-> FALSE,
               repos_todo |-> {}, repo |-> "", exit_to_commit |-> "",
               commits_todo |-> {}, modules_todo |-> {},
               installed |-> {}, failed |-> {},
               start |-> repo_commit, touched |-> {}]
    /\ ret' = [op |-> "update_cogs_and_libs"]
    /\ UNCHANGED <<regVars, repo_commit, gateVars, warnVars, delVars>>

\* repo.install_raw_requirements([req], LIB_PATH) returns whether it worked.
InstallRawRequirements(req, ok) ==
    /\ upd.pc = "install_requirements"
    /\ req \in upd.reqs_todo
    /\ upd' = [upd EXCEPT !.reqs_todo = @ \ {req},
                          !.attempted = @ \cup {req},
                          !.failed_reqs = IF ok THEN @ ELSE @ \cup {req}]
    /\ ret' = [op |-> "install_raw_requirements", req |-> req, ok |-> ok]
    /\ UNCHANGED <<regVars, repo_commit, gateVars, warnVars, delVars>>

\* failed_reqs is returned: stop on a failure, else go on to _install_cogs.
RequirementsDone ==
    /\ upd.pc = "install_requirements"
    /\ RequirementsReturned(upd)
    /\ upd' = IF upd.failed_reqs # {}
              THEN [upd EXCEPT !.pc = "done"]
              ELSE [upd EXCEPT !.pc = "install_cogs",
                               !.repos_todo = { cog.repo_name : cog \in upd.cogs }]
    /\ ret' = [op |-> "install_requirements", failed |-> upd.failed_reqs]
    /\ UNCHANGED <<regVars, repo_commit, gateVars, warnVars, delVars>>

\* for repo, cogs_by_commit in repos.values(): exit_to_commit = repo.commit
EnterRepo(r) ==
    /\ InPhase(upd)
    /\ upd.repo = ""
    /\ r \in upd.repos_todo
    /\ upd' = [upd EXCEPT !.repo = r,
                          !.repos_todo = @ \ {r},
                          !.exit_to_commit = repo_commit[r],
                          !.commits_todo =
                              { m.commit : m \in { x \in PhaseModules(upd) :
                                                     x.repo_name = r } }]
    /\ ret' = [op |-> "enter_repo", repo |-> r]
    /\ UNCHANGED <<regVars, repo_commit, gateVars, warnVars, delVars>>

\* await repo.checkout(commit): done, or raising and ending the operation.
Checkout(commit, ok) ==
    /\ InPhase(upd)
    /\ upd.repo # ""
    /\ upd.modules_todo = {}
    /\ commit \in upd.commits_todo
    /\ IF ok
       THEN /\ repo_commit' = [repo_commit EXCEPT ![upd.repo] = commit]
            /\ upd' = [upd EXCEPT !.commits_todo = @ \ {commit},
                                  !.modules_todo =
                                      ModulesAt(PhaseModules(upd), upd.repo, commit),
                                  !.fs_begun = TRUE,
                                  !.touched = @ \cup {upd.repo}]
       ELSE /\ UNCHANGED repo_commit
            /\ upd' = [upd EXCEPT !.pc = "raised", !.fs_begun = TRUE,
                                  !.touched = @ \cup {upd.repo}]
    /\ ret' = [op |-> "checkout", repo |-> upd.repo, commit |-> commit, ok |-> ok]
    /\ UNCHANGED <<regVars, gateVars, warnVars, delVars>>

\* await cog.copy_to(...): True, False, or raising.
CopyTo(cog, outcome) ==
    /\ upd.pc = "install_cogs"
    /\ cog \in upd.modules_todo
    /\ upd' = IF outcome = "raise"
              THEN [upd EXCEPT !.pc = "raised", !.fs_begun = TRUE]
              ELSE [upd EXCEPT !.modules_todo = @ \ {cog},
                               !.fs_begun = TRUE,
                               !.installed = IF outcome = "true"
                                             THEN @ \cup {FromInstallable(cog)}
                                             ELSE @,
                               !.failed = IF outcome = "false"
                                          THEN @ \cup {cog} ELSE @]
    /\ ret' = [op |-> "copy_to", modules |-> {cog},
               at |-> repo_commit[cog.repo_name], outcome |-> outcome]
    /\ UNCHANGED <<regVars, repo_commit, gateVars, warnVars, delVars>>

\* await repo.install_libraries(libraries=libs): the libraries installed and
\* those that failed, or raising.
InstallLibraries(installed, raises) ==
    /\ upd.pc = "reinstall_libraries"
    /\ upd.modules_todo # {}
    /\ installed \subseteq upd.modules_todo
    /\ upd' = IF raises
              THEN [upd EXCEPT !.pc = "raised", !.fs_begun = TRUE]
              ELSE [upd EXCEPT !.modules_todo = {},
                               !.fs_begun = TRUE,
                               !.installed =
                                   @ \cup { FromInstallable(l) : l \in installed },
                               !.failed = @ \cup (upd.modules_todo \ installed)]
    /\ ret' = [op |-> "install_libraries", modules |-> upd.modules_todo,
               at |-> repo_commit[upd.repo],
               outcome |-> IF raises THEN "raise" ELSE "returned"]
    /\ UNCHANGED <<regVars, repo_commit, gateVars, warnVars, delVars>>

\* await repo.checkout(exit_to_commit), after the repo's last commit group.
ExitCheckout(ok) ==
    /\ InPhase(upd)
    /\ upd.repo # ""
    /\ upd.modules_todo = {}
    /\ upd.commits_todo = {}
    /\ IF ok
       THEN /\ repo_commit' = [repo_commit EXCEPT ![upd.repo] = upd.exit_to_commit]
            /\ upd' = [upd EXCEPT !.repo = "", !.exit_to_commit = ""]
       ELSE /\ UNCHANGED repo_commit
            /\ upd' = [upd EXCEPT !.pc = "raised"]
    /\ ret' = [op |-> "checkout", repo |-> upd.repo,
               commit |-> upd.exit_to_commit, ok |-> ok]
    /\ UNCHANGED <<regVars, gateVars, warnVars, delVars>>

\* _install_cogs returned: on to _reinstall_libraries; that returned: save.
PhaseDone ==
    /\ InPhase(upd)
    /\ upd.repo = ""
    /\ upd.repos_todo = {}
    /\ upd' = IF upd.pc = "install_cogs"
              THEN [upd EXCEPT !.pc = "reinstall_libraries",
                               !.repos_todo = { lib.repo_name : lib \in upd.libs }]
              ELSE [upd EXCEPT !.pc = "save"]
    /\ ret' = [op |-> upd.pc]
    /\ UNCHANGED <<regVars, repo_commit, gateVars, warnVars, delVars>>

\* await self._save_to_installed(installed_cogs + installed_libs)
SaveInstalled ==
    LET data == SaveToInstalled(GlobalData, upd.installed)
    IN  /\ upd.pc = "save"
        /\ installed_cogs' = data.installed_cogs
        /\ installed_libraries' = data.installed_libraries
        /\ upd' = [upd EXCEPT !.pc = "done"]
        /\ ret' = [op |-> "save_to_installed", modules |-> upd.installed]
        /\ UNCHANGED <<schema_version, legacy_installed, repo_commit>>
        /\ UNCHANGED <<gateVars, warnVars, delVars>>

InitUpd ==
    /\ schema_version = 1
    /\ legacy_installed = NoLegacy
    /\ installed_cogs = EmptyMap
    /\ installed_libraries = EmptyMap
    /\ repo_commit = [r \in RepoNames |-> "c3"]
    /\ ret = [op |-> "none"]
    /\ upd = IdleUpdate
    /\ NoGate /\ NoWarnings /\ NoDeletion

NextUpd ==
    \/ \E cogs \in SUBSET UpdateCogChoices, libs \in SUBSET UpdateLibChoices :
          UpdStart(cogs, libs)
    \/ \E req \in {"q1", "q2"}, ok \in BOOLEAN : InstallRawRequirements(req, ok)
    \/ RequirementsDone
    \/ \E r \in RepoNames : EnterRepo(r)
    \/ \E commit \in {"c1", "c2", "c3"}, ok \in BOOLEAN : Checkout(commit, ok)
    \/ \E cog \in UpdateCogChoices, outcome \in {"true", "false", "raise"} :
          CopyTo(cog, outcome)
    \/ \E installed \in SUBSET UpdateLibChoices, raises \in BOOLEAN :
          InstallLibraries(installed, raises)
    \/ \E ok \in BOOLEAN : ExitCheckout(ok)
    \/ PhaseDone
    \/ SaveInstalled

SpecUpd == InitUpd /\ [][NextUpd]_vars

\* The operation is over: it returned or an error left it.
UpdEnded == upd.pc \in {"done", "raised"}

\* C1: in _update_cogs_and_libs every requirement-install attempt for the
\* cogs being updated has finished before any repo checkout or module file
\* copy begins.
C1_RequirementsBeforeFiles ==
    (upd.pc # "idle" /\ upd.fs_begun) =>
        upd.attempted = AllRequirements(upd.cogs)

\* A checkout has begun in an update whose cogs had two requirements.
C1_Witness ==
    /\ upd.pc # "idle"
    /\ upd.fs_begun
    /\ Cardinality(upd.attempted) = 2
    /\ ret.op = "copy_to"

\* C2: when _install_cogs / _reinstall_libraries end, normally or by an
\* error part-way, every repo they touched is checked out at the commit it
\* had when the operation started.
C2_RepoRolledBack ==
    UpdEnded => \A r \in upd.touched : repo_commit[r] = upd.start[r]

\* C7: whenever _install_cogs copies a cog's files or _reinstall_libraries
\* installs a set of libraries, the module's repo is checked out at exactly
\* that module's own commit.
C7_CopyAtOwnCommit ==
    ret.op \in {"copy_to", "install_libraries"} =>
        \A m \in ret.modules : ret.at = m.commit

\* A cog is copied in a repo that holds a second cog wanted at another
\* commit, away from the commit the repo started at.
C7_Witness ==
    /\ ret.op = "copy_to"
    /\ upd.pc = "install_cogs"
    /\ \E m \in ret.modules :
          /\ ret.at = m.commit
          /\ ret.at # upd.start[m.repo_name]
          /\ \E o \in upd.cogs : o.repo_name = m.repo_name /\ o.commit # m.commit

-----------------------------------------------------------------------------
(* Initialization: create_init_task, initialize, cog_unload and the        *)
(* cog_before_invoke hook of every Downloader command.                     *)

\* How many command invocations a behaviour holds.
MaxInvocations == 2

Invocations == 1..MaxInvocations

\* The init task has ended: initialize() returned, raised, or was cancelled.
TaskEnded == init_task.state \in {"returned", "raised", "cancelled"}

TaskFailed == init_task.state \in {"raised", "cancelled"}

\* create_init_task: the task is created and _done_callback attached.
CreateInitTask ==
    /\ init_task.state = "none"
    /\ init_task' = [init_task EXCEPT !.state = "repo_manager"]
    /\ ret' = [op |-> "create_init_task"]
    /\ UNCHANGED <<regVars, repo_commit, upd, invocations, warnVars, delVars>>

\* initialize: await self._repo_manager.initialize() returns or raises.
RepoManagerInitialize(ok) ==
    /\ init_task.state = "repo_manager"
    /\ init_task' = [init_task EXCEPT !.state = IF ok THEN "update_config"
                                                 ELSE "raised"]
    /\ ret' = [op |-> "repo_manager_initialize", ok |-> ok]
    /\ UNCHANGED <<regVars, repo_commit, upd, invocations, warnVars, delVars>>

\* initialize: await self._maybe_update_config() returns, and then
\* self._ready.set() ends the task; or it raises.
InitMaybeUpdateConfig(ok) ==
    /\ init_task.state = "update_config"
    /\ IF ok
       THEN /\ MaybeUpdateConfigEffect
            /\ init_task' = [init_task EXCEPT !.state = "returned", !.ready = TRUE]
       ELSE /\ UNCHANGED regVars
            /\ init_task' = [init_task EXCEPT !.state = "raised"]
    /\ ret' = [op |-> "maybe_update_config", ok |-> ok]
    /\ UNCHANGED <<repo_commit, upd, invocations, warnVars, delVars>>

\* cog_unload: self._init_task.cancel(); a task that has not ended ends
\* cancelled, a task that has ended is left as it is.
CogUnload ==
    /\ init_task.state # "none"
    /\ init_task' = [init_task EXCEPT !.state = IF TaskEnded THEN @ ELSE "cancelled"]
    /\ ret' = [op |-> "cog_unload"]
    /\ UNCHANGED <<regVars, repo_commit, upd, invocations, warnVars, delVars>>

\* _done_callback: nothing after a clean return; otherwise _ready_raised is
\* set and then _ready.
DoneCallback ==
    /\ TaskEnded
    /\ ~init_task.callback_ran
    /\ init_task' = IF init_task.state = "returned"
                    THEN [init_task EXCEPT !.callback_ran = TRUE]
                    ELSE [init_task EXCEPT !.callback_ran = TRUE,
                                           !.ready_raised = TRUE,
                                           !.ready = TRUE]
    /\ ret' = [op |-> "done_callback"]
    /\ UNCHANGED <<regVars, repo_commit, upd, invocations, warnVars, delVars>>

\* cog_before_invoke waits while _ready is not set.
NeverWait == FALSE

MustWait == ~init_task.ready

\* What cog_before_invoke does once it is past the wait: send the error and
\* raise CheckFailure when _ready_raised, else let the command run.
PastWait(i) ==
    IF init_task.ready_raised
    THEN [invocations EXCEPT ![i] = [pc |-> "rejected", error_sent |-> TRUE]]
    ELSE [invocations EXCEPT ![i] = [pc |-> "running", error_sent |-> FALSE]]

\* A command is invoked: cog_before_invoke runs up to its first await.
Invoke(i) ==
    /\ invocations[i].pc = "idle"
    /\ invocations' = IF MustWait
                      THEN [invocations EXCEPT ![i].pc = "waiting"]
                      ELSE PastWait(i)
    /\ ret' = [op |-> "cog_before_invoke", invocation |-> i]
    /\ UNCHANGED <<regVars, repo_commit, upd, init_task, warnVars, delVars>>

\* await self._ready.wait() returns once _ready is set.
Wake(i) ==
    /\ invocations[i].pc = "waiting"
    /\ init_task.ready
    /\ invocations' = PastWait(i)
    /\ ret' = [op |-> "ready_wait", invocation |-> i]
    /\ UNCHANGED <<regVars, repo_commit, upd, init_task, warnVars, delVars>>

\* The command's body runs to its end.
CommandReturns(i) ==
    /\ invocations[i].pc = "running"
    /\ invocations' = [invocations EXCEPT ![i].pc = "returned"]
    /\ ret' = [op |-> "command", invocation |-> i]
    /\ UNCHANGED <<regVars, repo_commit, upd, init_task, warnVars, delVars>>

InitGate ==
    /\ InitRegistry
    /\ repo_commit = [r \in RepoNames |-> "c1"]
    /\ ret = [op |-> "none"]
    /\ init_task = [state |-> "none", ready |-> FALSE, ready_raised |-> FALSE,
                    callback_ran |-> FALSE]
    /\ invocations = [i \in Invocations |-> [pc |-> "idle", error_sent |-> FALSE]]
    /\ NoUpdate /\ NoWarnings /\ NoDeletion

NextGate ==
    \/ CreateInitTask
    \/ \E ok \in BOOLEAN : RepoManagerInitialize(ok)
    \/ \E ok \in BOOLEAN : InitMaybeUpdateConfig(ok)
    \/ CogUnload
    \/ DoneCallback
    \/ \E i \in Invocations : Invoke(i)
    \/ \E i \in Invocations : Wake(i)
    \/ \E i \in Invocations : CommandReturns(i)

SpecGate == InitGate /\ [][NextGate]_vars

\* C9: no Downloader command body runs before the initialization task has
\* ended, and only after _ready is set; once initialization raised or was
\* cancelled no invocation runs its body, each being rejected with
\* CheckFailure after the error message was sent; if initialization
\* succeeded no invocation is rejected.
C9_GatedByInitialization ==
    \A i \in Invocations :
        /\ invocations[i].pc \in {"running", "returned"} =>
              init_task.state = "returned" /\ init_task.ready
        /\ invocations[i].pc = "rejected" =>
              TaskFailed /\ invocations[i].error_sent
        /\ (TaskEnded /\ invocations[i].pc \notin {"idle", "waiting"}) =>
              (invocations[i].pc = "rejected" <=> TaskFailed)

\* One invocation that waited through a cancelled initialization was
\* rejected, and one made after it was rejected too.
C9_Witness ==
    /\ init_task.state = "cancelled"
    /\ \A i \in Invocations : invocations[i].pc = "rejected"
    /\ ret.op = "cog_before_invoke"

-----------------------------------------------------------------------------
(* The Warnings cog: warn and unwarn, one step per awaited call.           *)

\* How many warn / unwarn invocations a behaviour holds.
MaxCommands == 2

Slots == 1..MaxCommands

\* The guild's members: its owner, an admin, two moderators, a user, a bot.
Members == {"owner", "admin", "mod", "peer", "user", "bot"}

GuildOwner == "owner"

IsBot(m) == m = "bot"

\* Position of member.top_role in the role hierarchy.
TopRole(m) ==
    IF m = "admin" THEN 3
    ELSE IF m \in {"mod", "peer"} THEN 2
    ELSE 1

\* str.lower() on the reasons used here.
Lower(reason) == IF reason = "SPAM" THEN "spam" ELSE reason

\* str(ctx.message.id): every invocation has a message of its own.
MessageId(s) == ToString(s)

\* warn's guards on the target: self, a bot, the owner, or the hierarchy.
RefusedAboveOnly(author, member) ==
    \/ member = author
    \/ IsBot(member)
    \/ member = GuildOwner
    \/ (TopRole(member) > TopRole(author) /\ author # GuildOwner)

Refused(author, member) ==
    \/ member = author
    \/ IsBot(member)
    \/ member = GuildOwner
    \/ (TopRole(member) >= TopRole(author) /\ author # GuildOwner)

\* registered_reasons.get(reason.lower()), None shown as the empty map.
ReasonType(reason) ==
    IF Lower(reason) \in DOMAIN guild_settings.reasons
    THEN guild_settings.reasons[Lower(reason)]
    ELSE IF guild_settings.allow_custom_reasons
    THEN [description |-> reason]
    ELSE EmptyMap

\* warning_to_add[str(ctx.message.id)] of the invocation c.
WarningToAddByTarget(c) == [description |-> c.description, mod |-> c.member]

WarningToAdd(c) == [description |-> c.description, mod |-> c.author]

\* user_warnings.update(warning_to_add)
WarnOverwrite(user_warnings, warn_id, warning) == Put(EmptyMap, warn_id, warning)

WarnUpdate(user_warnings, warn_id, warning) == Put(user_warnings, warn_id, warning)

\* user_warnings.pop(warn_id)
UnwarnClear(user_warnings, warn_id) == EmptyMap

UnwarnRemove(user_warnings, warn_id) == Pop(user_warnings, warn_id)

\* The store's context manager: entered only while nobody holds the value.
LockFree(m) == lock[m] = 0

IdleCommand ==
    [kind |-> "idle", pc |-> "idle", author |-> "", member |-> "", arg |-> "",
     description |-> "", dm |-> "none", copy |-> EmptyMap, stored |-> FALSE,
     popped |-> FALSE, case |-> FALSE]

\* The invocations tried: (author, member, reason) of warn.
WarnChoices ==
    { <<"mod", "user", "spam">>, <<"mod", "user", "flooding">>,
      <<"owner", "admin", "SPAM">>,
      <<"mod", "mod", "spam">>, <<"mod", "bot", "spam">>,
      <<"mod", "owner", "spam">>, <<"mod", "admin", "spam">>,
      <<"mod", "peer", "spam">> }

\* (author, member) of unwarn; the warn id is the id of any invocation's
\* message or of an earlier one.
UnwarnChoices == { <<"mod", "user">>, <<"mod", "mod">> }

WarnIds == { MessageId(t) : t \in Slots } \cup {"0"}

WarnInvoke(s, c) ==
    /\ commands[s].pc = "idle"
    /\ commands' = [commands EXCEPT ![s] =
           [IdleCommand EXCEPT !.kind = "warn", !.author = c[1], !.member = c[2],
                               !.arg = c[3],
                               !.pc = IF Refused(c[1], c[2]) THEN "rejected"
                                      ELSE "reasons"]]
    /\ ret' = [op |-> "warn", slot |-> s]
    /\ UNCHANGED <<guild_settings, member_warnings, lock>>
    /\ UNCHANGED <<regVars, repo_commit, upd, gateVars, delVars>>

\* async with reasons(): the reason is looked up; an unregistered reason is
\* taken as a custom one, or the command ends when custom reasons are off.
WarnReasons(s) ==
    /\ commands[s].pc = "reasons"
    /\ LET reason_type == ReasonType(commands[s].arg)
       IN  commands' = IF reason_type = EmptyMap
                       THEN [commands EXCEPT ![s].pc = "rejected"]
                       ELSE [commands EXCEPT ![s].pc = "dm",
                                             ![s].description = reason_type.description]
    /\ ret' = [op |-> "reasons", slot |-> s]
    /\ UNCHANGED <<guild_settings, member_warnings, lock>>
    /\ UNCHANGED <<regVars, repo_commit, upd, gateVars, delVars>>

\* if dm: await member.send(...), which may raise discord.HTTPException.
WarnDm(s, delivered) ==
    /\ commands[s].pc = "dm"
    /\ guild_settings.toggle_dm \/ delivered
    /\ commands' = [commands EXCEPT
           ![s].pc = "store",
           ![s].dm = IF ~guild_settings.toggle_dm THEN "none"
                     ELSE IF delivered THEN "sent" ELSE "failed"]
    /\ ret' = [op |-> "member_send", slot |-> s]
    /\ UNCHANGED <<guild_settings, member_warnings, lock>>
    /\ UNCHANGED <<regVars, repo_commit, upd, gateVars, delVars>>

\* async with member_settings.warnings() as user_warnings: entering.
EnterWarnings(s) ==
    /\ commands[s].pc \in {"store", "u_store"}
    /\ LockFree(commands[s].member)
    /\ lock' = [lock EXCEPT ![commands[s].member] = s]
    /\ commands' = [commands EXCEPT
           ![s].pc = IF @ = "store" THEN "storing" ELSE "u_storing",
           ![s].copy = member_warnings[commands[s].member]]
    /\ ret' = [op |-> "warnings_enter", slot |-> s]
    /\ UNCHANGED <<guild_settings, member_warnings>>
    /\ UNCHANGED <<regVars, repo_commit, upd, gateVars, delVars>>

\* warn: user_warnings.update(warning_to_add), and the context is left.
WarnStore(s) ==
    /\ commands[s].pc = "storing"
    /\ member_warnings' = [member_warnings EXCEPT ![commands[s].member] =
           WarnUpdate(commands[s].copy, MessageId(s), WarningToAdd(commands[s]))]
    /\ lock' = [lock EXCEPT ![commands[s].member] = 0]
    /\ commands' = [commands EXCEPT ![s].pc = "case", ![s].stored = TRUE,
                                    ![s].copy = EmptyMap]
    /\ ret' = [op |-> "warnings_exit", slot |-> s]
    /\ UNCHANGED guild_settings
    /\ UNCHANGED <<regVars, repo_commit, upd, gateVars, delVars>>

\* await modlog.create_case(...), after the channel message or the tick.
CreateCase(s) ==
    /\ commands[s].pc \in {"case", "u_case"}
    /\ commands' = [commands EXCEPT ![s].pc = "done", ![s].case = TRUE]
    /\ ret' = [op |-> "create_case", slot |-> s]
    /\ UNCHANGED <<guild_settings, member_warnings, lock>>
    /\ UNCHANGED <<regVars, repo_commit, upd, gateVars, delVars>>

UnwarnInvoke(s, c, warn_id) ==
    /\ commands[s].pc = "idle"
    /\ commands' = [commands EXCEPT ![s] =
           [IdleCommand EXCEPT !.kind = "unwarn", !.author = c[1], !.member = c[2],
                               !.arg = warn_id,
                               !.pc = IF c[2] = c[1] THEN "rejected" ELSE "u_store"]]
    /\ ret' = [op |-> "unwarn", slot |-> s]
    /\ UNCHANGED <<guild_settings, member_warnings, lock>>
    /\ UNCHANGED <<regVars, repo_commit, upd, gateVars, delVars>>

\* unwarn: the id is popped, or "That warning doesn't exist!" is sent, and
\* the context is left.
UnwarnPop(s) ==
    /\ commands[s].pc = "u_storing"
    /\ IF commands[s].arg \in DOMAIN commands[s].copy
       THEN /\ member_warnings' = [member_warnings EXCEPT ![commands[s].member] =
                   UnwarnRemove(commands[s].copy, commands[s].arg)]
            /\ commands' = [commands EXCEPT ![s].pc = "u_case", ![s].popped = TRUE,
                                            ![s].copy = EmptyMap]
       ELSE /\ UNCHANGED member_warnings
            /\ commands' = [commands EXCEPT ![s].pc = "not_found",
                                            ![s].copy = EmptyMap]
    /\ lock' = [lock EXCEPT ![commands[s].member] = 0]
    /\ ret' = [op |-> "warnings_exit", slot |-> s]
    /\ UNCHANGED guild_settings
    /\ UNCHANGED <<regVars, repo_commit, upd, gateVars, delVars>>

\* The warnings stored by earlier invocations, whose messages had other ids.
EarlierWarnings ==
    [m \in Members |->
        IF m = "user"
        THEN Put(Put(EmptyMap, "0", [description |-> "Old", mod |-> "admin"]),
                 "01", [description |-> "Older", mod |-> "mod"])
        ELSE IF m = "peer" THEN Put(EmptyMap, "00", [description |-> "Old", mod |-> "owner"])
        ELSE EmptyMap]

\* The reasons a guild may have registered.
ReasonChoices ==
    { EmptyMap, [r \in {"spam"} |-> [description |-> "Spamming"]] }

InitWarn ==
    /\ guild_settings \in
          [allow_custom_reasons : BOOLEAN, toggle_dm : BOOLEAN, reasons : ReasonChoices]
    /\ member_warnings = EarlierWarnings
    /\ lock = [m \in Members |-> 0]
    /\ commands = [s \in Slots |-> IdleCommand]
    /\ schema_version = 1
    /\ legacy_installed = NoLegacy
    /\ installed_cogs = EmptyMap
    /\ installed_libraries = EmptyMap
    /\ repo_commit = [r \in RepoNames |-> "c1"]
    /\ ret = [op |-> "none"]
    /\ NoUpdate /\ NoGate /\ NoDeletion

NextWarn ==
    \/ \E s \in Slots, c \in WarnChoices : WarnInvoke(s, c)
    \/ \E s \in Slots : WarnReasons(s)
    \/ \E s \in Slots, delivered \in BOOLEAN : WarnDm(s, delivered)
    \/ \E s \in Slots : EnterWarnings(s)
    \/ \E s \in Slots : WarnStore(s)
    \/ \E s \in Slots : CreateCase(s)
    \/ \E s \in Slots, c \in UnwarnChoices, warn_id \in WarnIds :
          UnwarnInvoke(s, c, warn_id)
    \/ \E s \in Slots : UnwarnPop(s)

SpecWarn == InitWarn /\ [][NextWarn]_vars

\* Every invocation is over (or was never made).
AllCommandsOver ==
    \A s \in Slots : commands[s].pc \in {"idle", "rejected", "not_found", "done"}

\* An unwarn naming this id took it out of this member's warnings.
Unwarned(m, warn_id) ==
    \E u \in Slots :
        /\ commands[u].kind = "unwarn"
        /\ commands[u].member = m
        /\ commands[u].arg = warn_id
        /\ commands[u].popped

\* C8: when warn and unwarn commands on the same member interleave in any
\* order, no update is lost: after all of them finish, the member's warnings
\* contain every warning that was added and not removed by an unwarn naming
\* its id.
C8_NoLostUpdate ==
    AllCommandsOver =>
        \A s \in Slots :
            ( /\ commands[s].kind = "warn"
              /\ commands[s].stored
              /\ ~Unwarned(commands[s].member, MessageId(s)) )
            => MessageId(s) \in DOMAIN member_warnings[commands[s].member]

\* Two warns of one member are over and both warnings are stored.
C8_Witness ==
    /\ AllCommandsOver
    /\ \E s, t \in Slots :
          /\ s # t
          /\ commands[s].kind = "warn" /\ commands[s].stored
          /\ commands[t].kind = "warn" /\ commands[t].stored
          /\ commands[s].member = commands[t].member
          /\ {MessageId(s), MessageId(t)}
                 \subseteq DOMAIN member_warnings[commands[s].member]

\* The claim's conditions under which a warn is to be turned down.
MustReject(author, member, reason) ==
    \/ member = author
    \/ IsBot(member)
    \/ member = GuildOwner
    \/ (TopRole(member) >= TopRole(author) /\ author # GuildOwner)
    \/ ( /\ Lower(reason) \notin DOMAIN guild_settings.reasons
         /\ ~guild_settings.allow_custom_reasons )

\* C10: a rejected warn changes nothing: when the target is the invoker, a
\* bot, the guild owner, or has a top role equal to or above the invoker's
\* (invoker not being the owner), or when the reason is not registered and
\* custom reasons are off, no warning is stored for any member, no DM is
\* sent to the target and no modlog case is created.
C10_RejectedWarnChangesNothing ==
    \A s \in Slots :
        ( /\ commands[s].kind = "warn"
          /\ MustReject(commands[s].author, commands[s].member, commands[s].arg) )
        => /\ \A m \in Members : MessageId(s) \notin DOMAIN member_warnings[m]
           /\ commands[s].pc \in {"reasons", "rejected"}
           /\ commands[s].dm = "none"
           /\ ~commands[s].stored
           /\ ~commands[s].case

\* A warn turned down for its unregistered reason beside one turned down for
\* the target's equal role, with DMs switched on.
C10_Witness ==
    /\ guild_settings.toggle_dm
    /\ \E s, t \in Slots :
          /\ commands[s].kind = "warn" /\ commands[s].pc = "rejected"
          /\ ~Refused(commands[s].author, commands[s].member)
          /\ commands[t].kind = "warn" /\ commands[t].pc = "rejected"
          /\ commands[t].member = "peer"

-----------------------------------------------------------------------------
(* What an accepted warn stores.                                           *)

\* The description the claim expects: the registered reason's, or the
\* reason as typed when it is a custom one.
ExpectedDescription(reason) ==
    IF Lower(reason) \in DOMAIN guild_settings.reasons
    THEN guild_settings.reasons[Lower(reason)].description
    ELSE reason

\* The step in which the warn of slot s stores its entry.
WarnStoresIn(s) ==
    /\ commands[s].kind = "warn"
    /\ ~commands[s].stored
    /\ commands'[s].stored

\* The store after an entry for the warn of slot s was added to its target
\* and nothing else was touched.
WithWarningOf(s) ==
    [member_warnings EXCEPT ![commands[s].member] =
        Put(@, MessageId(s),
            [description |-> ExpectedDescription(commands[s].arg),
             mod |-> commands[s].author])]

\* C11: an accepted warn adds exactly one entry to the target member's
\* warnings, keyed by the invoking message's id and holding the reason
\* description and the invoker's id as mod; every other member's warnings
\* and every other entry of the target stay as they were, no other step of
\* a warn touches the stored warnings, a warn whose DM failed still goes on
\* to store, and the modlog case is created only after the entry is stored.
C11_AcceptedWarnAddsOneEntry ==
    /\ [](\A s \in Slots :
            commands[s].kind = "warn" =>
                /\ commands[s].case => commands[s].stored
                /\ commands[s].pc \in {"case", "done"} => commands[s].stored
                /\ commands[s].dm = "failed" =>
                       commands[s].pc \in {"store", "storing", "case", "done"})
    /\ [][\A s \in Slots :
            /\ WarnStoresIn(s) =>
                   /\ MessageId(s) \notin DOMAIN member_warnings[commands[s].member]
                   /\ member_warnings' = WithWarningOf(s)
            /\ ( /\ ret'.op # "none"
                 /\ ret'.slot = s
                 /\ commands'[s].kind = "warn"
                 /\ ~WarnStoresIn(s) )
               => member_warnings' = member_warnings]_vars

\* A warn whose DM failed stored its entry beside the target's earlier one,
\* another member's warnings are in the store, and the case was created.
C11_Witness ==
    \E s \in Slots :
        /\ commands[s].kind = "warn"
        /\ commands[s].dm = "failed"
        /\ commands[s].pc = "done" /\ commands[s].case
        /\ {"0", MessageId(s)} \subseteq DOMAIN member_warnings[commands[s].member]
        /\ member_warnings[commands[s].member][MessageId(s)].mod = commands[s].author
        /\ \E m \in Members \ {commands[s].member} : member_warnings[m] # EmptyMap

-----------------------------------------------------------------------------
(* What unwarn removes.                                                    *)

\* The step in which the unwarn of slot s takes its entry out.
UnwarnPopsIn(s) ==
    /\ commands[s].kind = "unwarn"
    /\ ~commands[s].popped
    /\ commands'[s].popped

\* The store without the entry the unwarn of slot s names, all else kept.
WithoutWarningOf(s) ==
    [member_warnings EXCEPT ![commands[s].member] =
        [k \in (DOMAIN @) \ {commands[s].arg} |-> @[k]]]

\* C12: unwarn on the invoker, or with a warn id that is not among the
\* member's warnings, leaves the stored warnings unchanged and creates no
\* modlog case; otherwise exactly the entry with that id is removed from
\* that member, all other entries stay, and the 'unwarned' case is created
\* only then.
C12_UnwarnRemovesNamedEntry ==
    /\ [](\A s \in Slots :
            commands[s].kind = "unwarn" =>
                /\ commands[s].member = commands[s].author =>
                       commands[s].pc = "rejected"
                /\ commands[s].pc \in {"rejected", "not_found"} =>
                       ~commands[s].popped /\ ~commands[s].case
                /\ commands[s].case => commands[s].popped
                /\ commands[s].pc \in {"u_case", "done"} => commands[s].popped
                /\ commands[s].pc = "done" => commands[s].case)
    /\ [][\A s \in Slots :
            ( /\ ret'.op # "none"
              /\ ret'.slot = s
              /\ commands'[s].kind = "unwarn" )
            => /\ UnwarnPopsIn(s) =>
                      /\ commands[s].arg \in DOMAIN member_warnings[commands[s].member]
                      /\ member_warnings' = WithoutWarningOf(s)
               /\ ~UnwarnPopsIn(s) => member_warnings' = member_warnings
               /\ commands'[s].pc = "not_found" =>
                      commands[s].arg \notin DOMAIN member_warnings[commands[s].member]
               /\ commands'[s].pc = "u_case" =>
                      commands[s].arg \in DOMAIN member_warnings[commands[s].member]]_vars

\* One unwarn took an earlier warning out, left the member's other warning
\* in place and had its case created, while another named an id the member
\* does not hold.
C12_Witness ==
    \E s, t \in Slots :
        /\ commands[s].kind = "unwarn" /\ commands[s].popped
        /\ commands[s].pc = "done" /\ commands[s].case
        /\ commands[s].arg \notin DOMAIN member_warnings[commands[s].member]
        /\ member_warnings[commands[s].member] # EmptyMap
        /\ member_warnings[commands[s].member] # EarlierWarnings[commands[s].member]
        /\ commands[t].kind = "unwarn" /\ commands[t].pc = "not_found"

-----------------------------------------------------------------------------
(* red_delete_data_for_user, one step per awaited call.                    *)

Guilds == {"g1", "g2"}

Requesters == {"discord_deleted_user", "owner", "user", "user_strict"}

\* The id 0xDE1 written in place of a deleted moderator's id.
DeletedModerator == "0xDE1"

\* The users whose data is asked to be deleted.
UserIds == {"mod", "user", "admin", "owner"}

MemberData(warnings) == [status |-> "", warnings |-> warnings]

\* The member data the guilds may hold when the deletion is asked for. No
\* member holds a warning of their own making: warn refuses the invoker as
\* target.
StoreChoices ==
    LET moderated ==
            [m \in {"user", "mod", "admin"} |->
                IF m = "user"
                THEN MemberData(Put(Put(EmptyMap, "0", [description |-> "Old", mod |-> "mod"]),
                                    "01", [description |-> "Older", mod |-> "admin"]))
                ELSE IF m = "mod"
                THEN MemberData(Put(EmptyMap, "02", [description |-> "Old", mod |-> "admin"]))
                ELSE MemberData(EmptyMap)]
        other ==
            [m \in {"peer", "mod"} |->
                IF m = "peer"
                THEN MemberData(Put(EmptyMap, "03", [description |-> "Old", mod |-> "mod"]))
                ELSE MemberData(EmptyMap)]
        later ==
            [m \in {"user", "admin"} |->
                IF m = "user"
                THEN MemberData(Put(EmptyMap, "04",
                                    [description |-> "Old", mod |-> DeletedModerator]))
                ELSE MemberData(Put(EmptyMap, "05", [description |-> "Old", mod |-> "owner"]))]
    IN  { [g \in Guilds |-> IF g = "g1" THEN moderated ELSE other],
          [g \in Guilds |-> IF g = "g1" THEN moderated ELSE EmptyMap],
          [g \in Guilds |-> IF g = "g1" THEN EmptyMap ELSE later] }

\* if requester != "discord_deleted_user": return
DeletionAllowedAlways(requester) == TRUE

DeletionAllowed(requester) == requester = "discord_deleted_user"

\* Group.set_raw("warnings", warn_id, "mod", value=...) on a member: the
\* path is made where it is missing.
SetRawMod(store, g, u, warn_id, value) ==
    LET data == IF u \in DOMAIN store[g] THEN store[g][u] ELSE EmptyMap
        warnings == IF "warnings" \in DOMAIN data THEN data["warnings"] ELSE EmptyMap
        warning == IF warn_id \in DOMAIN warnings THEN warnings[warn_id] ELSE EmptyMap
    IN  [store EXCEPT ![g] =
            Put(@, u, Put(data, "warnings",
                          Put(warnings, warn_id, Put(warning, "mod", value))))]

\* Group.clear() on a member.
ClearMember(store, g, u) ==
    IF u \in DOMAIN store[g] THEN [store EXCEPT ![g] = Pop(@, u)] ELSE store

\* The (remaining_user, warn_id) pairs the loops over one guild's data visit.
WarningsIn(guild_data) ==
    UNION { { <<u, warn_id>> : warn_id \in DOMAIN guild_data[u].warnings } :
            u \in DOMAIN guild_data }

IdleDeletion == [pc |-> "idle"]

DeleteInvoke(requester, user_id) ==
    /\ deletion.pc \in {"idle", "returned"}
    /\ deletion' = [pc |-> IF DeletionAllowed(requester) THEN "all_members" ELSE "returned",
                    requester |-> requester, user_id |-> user_id,
                    all_members |-> EmptyMap, guilds |-> {}, guild |-> "", todo |-> {}]
    /\ ret' = [op |-> "red_delete_data_for_user", requester |-> requester,
               user_id |-> user_id, before |-> member_data]
    /\ UNCHANGED member_data
    /\ UNCHANGED <<regVars, repo_commit, upd, gateVars, warnVars>>

\* all_members = await self.config.all_members()
AllMembers ==
    /\ deletion.pc = "all_members"
    /\ deletion' = [deletion EXCEPT !.pc = "guilds", !.all_members = member_data,
                                    !.guilds = DOMAIN member_data]
    /\ UNCHANGED <<member_data, ret>>
    /\ UNCHANGED <<regVars, repo_commit, upd, gateVars, warnVars>>

\* for guild_id, guild_data in all_members.items(): the next guild.
NextGuild(g) ==
    /\ deletion.pc = "guilds"
    /\ g \in deletion.guilds
    /\ deletion' = [deletion EXCEPT
           !.pc = IF deletion.user_id \in DOMAIN deletion.all_members[g]
                  THEN "clear" ELSE "warnings",
           !.guild = g,
           !.guilds = @ \ {g},
           !.todo = WarningsIn(deletion.all_members[g])]
    /\ UNCHANGED <<member_data, ret>>
    /\ UNCHANGED <<regVars, repo_commit, upd, gateVars, warnVars>>

\* await self.config.member_from_ids(guild_id, user_id).clear()
Clear ==
    /\ deletion.pc = "clear"
    /\ member_data' = ClearMember(member_data, deletion.guild, deletion.user_id)
    /\ deletion' = [deletion EXCEPT !.pc = "warnings"]
    /\ UNCHANGED ret
    /\ UNCHANGED <<regVars, repo_commit, upd, gateVars, warnVars>>

\* for remaining_user ... for warn_id, warning ...: one warning of the
\* snapshot is looked at, and its mod is rewritten when it is the user.
ExamineWarning(u, warn_id) ==
    /\ deletion.pc = "warnings"
    /\ <<u, warn_id>> \in deletion.todo
    /\ member_data' =
           IF deletion.all_members[deletion.guild][u].warnings[warn_id].mod
                  = deletion.user_id
           THEN SetRawMod(member_data, deletion.guild, u, warn_id, DeletedModerator)
           ELSE member_data
    /\ deletion' = [deletion EXCEPT !.todo = @ \ {<<u, warn_id>>}]
    /\ UNCHANGED ret
    /\ UNCHANGED <<regVars, repo_commit, upd, gateVars, warnVars>>

\* The loops over one guild's data are over.
GuildDone ==
    /\ deletion.pc = "warnings"
    /\ deletion.todo = {}
    /\ deletion' = [deletion EXCEPT !.pc = "guilds", !.guild = ""]
    /\ UNCHANGED <<member_data, ret>>
    /\ UNCHANGED <<regVars, repo_commit, upd, gateVars, warnVars>>

DeleteReturn ==
    /\ deletion.pc = "guilds"
    /\ deletion.guilds = {}
    /\ deletion' = [deletion EXCEPT !.pc = "returned", !.all_members = EmptyMap]
    /\ UNCHANGED <<member_data, ret>>
    /\ UNCHANGED <<regVars, repo_commit, upd, gateVars, warnVars>>

InitDelete ==
    /\ member_data \in StoreChoices
    /\ deletion = IdleDeletion
    /\ schema_version = 1
    /\ legacy_installed = NoLegacy
    /\ installed_cogs = EmptyMap
    /\ installed_libraries = EmptyMap
    /\ repo_commit = [r \in RepoNames |-> "c1"]
    /\ ret = [op |-> "none"]
    /\ NoUpdate /\ NoGate /\ NoWarnings

NextDelete ==
    \/ \E requester \in Requesters, user_id \in UserIds : DeleteInvoke(requester, user_id)
    \/ AllMembers
    \/ \E g \in Guilds : NextGuild(g)
    \/ Clear
    \/ \E u \in Members, warn_id \in {"0", "01", "02", "03", "04", "05"} :
          ExamineWarning(u, warn_id)
    \/ GuildDone
    \/ DeleteReturn

SpecDelete == InitDelete /\ [][NextDelete]_vars

\* What the claim expects of a warning once the data of user_id is deleted.
AfterDeletion(warning, user_id) ==
    IF warning.mod = user_id THEN [warning EXCEPT !.mod = DeletedModerator]
    ELSE warning

\* C13: red_delete_data_for_user changes no stored data unless the
\* requester is discord_deleted_user; when it is, after the call no member
\* data for that user id is stored in any guild, every warning whose mod was
\* that user id has mod 0xDE1, and every other member, every other warning
\* and every other field is as it was before the call.
C13_DeletesOnlyDeletedUsersData ==
    ret.op = "red_delete_data_for_user" =>
        /\ ret.requester # "discord_deleted_user" => member_data = ret.before
        /\ ( ret.requester = "discord_deleted_user" /\ deletion.pc = "returned" ) =>
               \A g \in Guilds :
                   /\ DOMAIN member_data[g] = (DOMAIN ret.before[g]) \ {ret.user_id}
                   /\ \A u \in DOMAIN member_data[g] :
                          /\ DOMAIN member_data[g][u] = {"status", "warnings"}
                          /\ member_data[g][u].status = ret.before[g][u].status
                          /\ DOMAIN member_data[g][u].warnings
                                 = DOMAIN ret.before[g][u].warnings
                          /\ \A warn_id \in DOMAIN member_data[g][u].warnings :
                                 member_data[g][u].warnings[warn_id]
                                     = AfterDeletion(ret.before[g][u].warnings[warn_id],
                                                     ret.user_id)

\* The data of a moderator who had member data and had issued warnings in
\* two guilds was deleted, next to a warning issued by somebody else.
C13_Witness ==
    /\ ret.op = "red_delete_data_for_user"
    /\ ret.requester = "discord_deleted_user"
    /\ deletion.pc = "returned"
    /\ \A g \in Guilds :
          /\ ret.user_id \in DOMAIN ret.before[g]
          /\ \E u \in DOMAIN member_data[g] :
                \E warn_id \in DOMAIN member_data[g][u].warnings :
                    /\ ret.before[g][u].warnings[warn_id].mod = ret.user_id
                    /\ member_data[g][u].warnings[warn_id].mod = DeletedModerator
    /\ \E g \in Guilds :
          \E u \in DOMAIN member_data[g] :
              \E warn_id \in DOMAIN member_data[g][u].warnings :
                  member_data[g][u].warnings[warn_id].mod \notin {ret.user_id, DeletedModerator}

====
